---- MODULE Spec2Model ----
(***************************************************************************)
(* A model of torchtune.modules.peft.lora.LoRALinear: construction, the    *)
(* adapter-parameter enumeration, init_dora, the combined-weight norm and   *)
(* the forward pass.                                                       *)
(*                                                                         *)
(* Tensors hold exact real numbers.  A rational is a reduced pair <<n, d>>  *)
(* with d > 0.  The row norm takes a square root, so a value that went      *)
(* through torch.linalg.norm is a "surd" [q |-> rational, s |-> squarefree  *)
(* natural, e |-> natural], meaning q * sqrt(s) * 10^(-6 e).  s = 0 marks   *)
(* the non-finite results of a division by zero (q = 0: NaN, q = +-1:       *)
(* +-Inf).  The layer is in training mode, x is one row of a batch.         *)
(***************************************************************************)
EXTENDS Integers, Sequences, FiniteSets, TLC

(***************************************************************************)
(* Exact rational arithmetic.                                              *)
(***************************************************************************)
Abs(n) == IF n < 0 THEN -n ELSE n

RECURSIVE Gcd(_, _)
Gcd(a, b) == IF b = 0 THEN a ELSE Gcd(b, a % b)

RNorm(n, d) ==
    LET g == Gcd(Abs(n), Abs(d))
        sg == IF d < 0 THEN -1 ELSE 1
    IN  <<sg * (n \div g), sg * (d \div g)>>

R(n) == <<n, 1>>

RAdd(a, b) ==
    LET g == Gcd(a[2], b[2])
    IN  RNorm(a[1] * (b[2] \div g) + b[1] * (a[2] \div g), a[2] * (b[2] \div g))

RNeg(a) == <<-a[1], a[2]>>

RMul(a, b) ==
    LET g1 == Gcd(Abs(a[1]), b[2])
        g2 == Gcd(Abs(b[1]), a[2])
    IN  IF a[1] = 0 \/ b[1] = 0 THEN <<0, 1>>
        ELSE <<(a[1] \div g1) * (b[1] \div g2), (a[2] \div g2) * (b[2] \div g1)>>

RInv(a) == IF a[1] < 0 THEN <<-a[2], -a[1]>> ELSE <<a[2], a[1]>>

RDiv(a, b) == RMul(a, RInv(b))

\* a/b < c/d for naturals a, c and positive b, d, by the Euclidean expansion
\* (no product is formed)
RECURSIVE FracLess(_, _, _, _)
FracLess(a, b, c, d) ==
    IF (a \div b) # (c \div d) THEN (a \div b) < (c \div d)
    ELSE IF c % d = 0 THEN FALSE
    ELSE IF a % b = 0 THEN TRUE
    ELSE FracLess(d, c % d, b, a % b)

RLess(a, b) ==
    IF a[1] < 0
    THEN IF b[1] < 0 THEN FracLess(-b[1], b[2], -a[1], a[2]) ELSE TRUE
    ELSE IF b[1] <= 0 THEN FALSE
    ELSE FracLess(a[1], a[2], b[1], b[2])

RLeq(a, b) == ~RLess(b, a)

RAbs(a) == <<Abs(a[1]), a[2]>>

(***************************************************************************)
(* Square roots.                                                           *)
(***************************************************************************)
\* an upper bound of sqrt(n); above 2500, sqrt(n) <= (n / 100 + 100) / 2
SqrtUpper(n) ==
    IF n <= 16 THEN 4
    ELSE IF n <= 100 THEN 10
    ELSE IF n <= 2500 THEN 50
    ELSE (n \div 200) + 51

\* the largest k with k*k dividing n  (n >= 1)
SqPart(n) ==
    LET S == {k \in 1..SqrtUpper(n) : k * k <= n /\ n % (k * k) = 0}
    IN  CHOOSE k \in S : \A j \in S : j <= k

\* A real: q * sqrt(s) * 10^(-6 e).  The exponent e counts factors of the
\* clamp floor 1e-6, which no 32-bit denominator can carry squared.
SZero == [q |-> <<0, 1>>, s |-> 1, e |-> 0]
NaN == [q |-> <<0, 1>>, s |-> 0, e |-> 0]
Inf(sign) == [q |-> <<sign, 1>>, s |-> 0, e |-> 0]

Finite(a) == a.s # 0

SOfRat(r) == [q |-> r, s |-> 1, e |-> 0]

\* sqrt of a rational r >= 0
Sqrt(r) ==
    IF r[1] = 0 THEN SZero
    ELSE LET a == SqPart(r[1])
             b == SqPart(r[2])
             p == r[1] \div (a * a)
             d == r[2] \div (b * b)
         IN  [q |-> RNorm(a, b * d), s |-> p * d, e |-> 0]

SSign(a) == IF a.q[1] > 0 THEN 1 ELSE IF a.q[1] < 0 THEN -1 ELSE 0

SMul(a, b) ==
    IF ~Finite(a) \/ ~Finite(b)
    THEN IF (a = NaN) \/ (b = NaN) \/ SSign(a) = 0 \/ SSign(b) = 0 THEN NaN
         ELSE Inf(SSign(a) * SSign(b))
    ELSE IF SSign(a) = 0 \/ SSign(b) = 0 THEN SZero
    ELSE LET g == Gcd(a.s, b.s)
         IN  [q |-> RMul(RMul(a.q, b.q), R(g)),
              s |-> (a.s \div g) * (b.s \div g),
              e |-> a.e + b.e]

\* a / b with IEEE results for a zero divisor
SDiv(a, b) ==
    IF ~Finite(a) \/ ~Finite(b) THEN NaN
    ELSE IF SSign(b) = 0
         THEN IF SSign(a) = 0 THEN NaN ELSE Inf(SSign(a))
    ELSE SMul(a, [q |-> RInv(RMul(b.q, R(b.s))), s |-> b.s, e |-> 0 - b.e])

\* a < b for finite a, b > 0 with a.e = b.e: with n/d = a.q / b.q, the test
\* n^2 a.s < d^2 b.s is (n a.s)/d < (d b.s)/n
SLessSameExp(a, b) ==
    IF a.s = b.s THEN RLess(a.q, b.q)
    ELSE LET r == RDiv(a.q, b.q)
         IN  FracLess(r[1] * a.s, r[2], r[2] * b.s, r[1])

\* small * 10^(-6) < big holds as soon as small < 1000 and big >= 1/1000
FarBelow(small, big) ==
    /\ RLess(RMul(small.q, R(SqrtUpper(small.s))), R(1000))
    /\ RLeq(<<1, 1000>>, big.q)

RECURSIVE Shift(_, _)
\* the same real with exponent 0
Shift(a, k) ==
    IF k = 0 THEN [a EXCEPT !.e = 0]
    ELSE IF k > 0 THEN Shift([a EXCEPT !.q = RMul(@, <<1, 1000000>>)], k - 1)
    ELSE Shift([a EXCEPT !.q = RMul(@, <<1000000, 1>>)], k + 1)

\* a < b for finite a, b > 0
SLessPos(a, b) ==
    IF a.e = b.e THEN SLessSameExp(a, b)
    ELSE IF a.e > b.e /\ FarBelow(a, b) THEN TRUE
    ELSE IF a.e < b.e /\ FarBelow(b, a) THEN FALSE
    ELSE SLessSameExp(Shift(a, a.e), Shift(b, b.e))

SNeg(a) == [a EXCEPT !.q = RNeg(@)]

\* a < b for finite a, b
SLess(a, b) ==
    IF SSign(a) < 0
    THEN IF SSign(b) < 0 THEN SLessPos(SNeg(b), SNeg(a)) ELSE TRUE
    ELSE IF SSign(b) <= 0 THEN FALSE
    ELSE IF SSign(a) = 0 THEN TRUE
    ELSE SLessPos(a, b)

SLeq(a, b) == ~SLess(b, a)

\* equality of reals, whatever their representation
SEq(a, b) == Finite(a) /\ Finite(b) /\ ~SLess(a, b) /\ ~SLess(b, a)

SAbs(a) == [a EXCEPT !.q = RAbs(@)]

(***************************************************************************)
(* Tensor algebra on vectors (sequences of rationals) and matrices          *)
(* (sequences of rows).  Every operator is strict: it binds the value of    *)
(* each argument once (a \in {u}) before it indexes into it.                *)
(***************************************************************************)
RECURSIVE DotFrom(_, _, _)
DotFrom(u, v, i) ==
    IF i > Len(u) THEN <<0, 1>>
    ELSE RAdd(RMul(u[i], v[i]), DotFrom(u, v, i + 1))

Dot(u, v) == CHOOSE r \in {DotFrom(a, b, 1) : a \in {u}, b \in {v}} : TRUE

\* M @ v
MatVec(M, v) ==
    CHOOSE r \in {[i \in 1..Len(P) |-> Dot(P[i], a)] : P \in {M}, a \in {v}} : TRUE

Column(M, j) == [k \in 1..Len(M) |-> M[k][j]]

\* P @ Q for P of shape (o, r) and Q of shape (r, n)
MatMul(P, Q, n) ==
    CHOOSE r \in {[i \in 1..Len(A) |-> [j \in 1..n |-> Dot(A[i], Column(B, j))]] :
                     A \in {P}, B \in {Q}} : TRUE

VecAdd(u, v) ==
    CHOOSE r \in {[i \in 1..Len(a) |-> RAdd(a[i], b[i])] : a \in {u}, b \in {v}} : TRUE

VecScale(c, v) ==
    CHOOSE r \in {[i \in 1..Len(a) |-> RMul(k, a[i])] : k \in {c}, a \in {v}} : TRUE

MatAdd(P, Q) ==
    CHOOSE r \in {[i \in 1..Len(A) |-> VecAdd(A[i], B[i])] : A \in {P}, B \in {Q}} : TRUE

MatScale(c, P) ==
    CHOOSE r \in {[i \in 1..Len(A) |-> VecScale(k, A[i])] : k \in {c}, A \in {P}} : TRUE

\* torch.linalg.norm(M, dim=1): one entry per row, shape (o,)
RowNorm(M) ==
    CHOOSE r \in {[i \in 1..Len(A) |-> Sqrt(Dot(A[i], A[i]))] : A \in {M}} : TRUE

\* F.linear(x, W, b); b = <<>> is bias=None
Linear(v, W, b) == IF b = <<>> THEN MatVec(W, v) ELSE VecAdd(MatVec(W, v), b)

SVec(v) == CHOOSE r \in {[i \in 1..Len(a) |-> SOfRat(a[i])] : a \in {v}} : TRUE

(***************************************************************************)
(* NF4.  A tensor in NF4 format is represented by the values it decodes to. *)
(* Encoding scales the block (here: the whole tensor) by its largest        *)
(* magnitude and stores, per entry, the index of the nearest of the 16      *)
(* levels (the first such index on a tie); decoding multiplies the level    *)
(* back by the scale.  The levels are the NF4 code book to two decimals, in *)
(* hundredths.                                                             *)
(***************************************************************************)
NF4Levels ==
    <<-100, -70, -53, -39, -28, -18, -9, 0, 8, 16, 25, 34, 44, 56, 72, 100>>

RECURSIVE AbsMaxFrom(_, _, _)
AbsMaxFrom(v, i, best) ==
    IF i > Len(v) THEN best
    ELSE AbsMaxFrom(v, i + 1, IF SLess(best, SAbs(v[i])) THEN SAbs(v[i]) ELSE best)

AbsMax(v) == CHOOSE r \in {AbsMaxFrom(a, 1, SZero) : a \in {v}} : TRUE

\* the least index in lo..hi whose level is nearest to r: the halfway point
\* above a level belongs to it
RECURSIVE NearestIn(_, _, _)
NearestIn(r, lo, hi) ==
    IF lo = hi THEN lo
    ELSE LET mid == (lo + hi) \div 2
             half == SOfRat(RNorm(NF4Levels[mid] + NF4Levels[mid + 1], 200))
         IN  IF SLess(half, r) THEN NearestIn(r, mid + 1, hi) ELSE NearestIn(r, lo, mid)

\* the index of the level nearest to r, for r in [-1, 1]
NearestLevel(r) == NearestIn(r, 1, Len(NF4Levels))

NF4Encode(v) ==
    CHOOSE t \in {[scale |-> scale,
                   codes |-> [i \in 1..Len(a) |->
                                 IF SSign(scale) = 0 THEN 8
                                 ELSE NearestLevel(SDiv(a[i], scale))]] :
                     a \in {v}, scale \in {AbsMax(v)}} : TRUE

NF4Decode(t) ==
    CHOOSE r \in {[i \in 1..Len(u.codes) |->
                     SMul(SOfRat(RNorm(NF4Levels[u.codes[i]], 100)), u.scale)] :
                     u \in {t}} : TRUE

\* to_nf4 on a vector of reals
to_nf4(v) == NF4Decode(NF4Encode(v))

\* to_nf4 on a matrix of shape (o, n): one block over the flattened tensor
Flatten(M, n) ==
    [k \in 1..(Len(M) * n) |-> SOfRat(M[((k - 1) \div n) + 1][((k - 1) % n) + 1])]

to_nf4_matrix(M, n) ==
    CHOOSE r \in {[i \in 1..(Len(dec) \div n) |-> [j \in 1..n |-> dec[(i - 1) * n + j].q]] :
                     dec \in {to_nf4(Flatten(M, n))}} : TRUE

(***************************************************************************)
(* Bounds and the values the environment supplies.                         *)
(***************************************************************************)
MaxAlpha == 2
MaxB == 1
MaxX == 1

\* (in_dim, out_dim, rank)
Shapes == {<<4, 2, 1>>, <<2, 2, 2>>}
Alphas == 1..MaxAlpha
\* dropout probabilities, as rationals
DropoutPs == {<<0, 1>>, <<1, 2>>}

IntVec(v) == [i \in 1..Len(v) |-> R(v[i])]
Unit(n, i) == [j \in 1..n |-> IF j = i THEN R(1) ELSE R(0)]
ConstVec(n, c) == [j \in 1..n |-> R(c)]
Prefix(n, v) == [j \in 1..n |-> IF j <= Len(v) THEN R(v[j]) ELSE R(0)]

WKinds == {"unit", "zerofirst", "mix"}

\* the values a base weight of shape (o, n) is filled with
WMat(kind, n, o) ==
    [i \in 1..o |->
        CASE kind = "unit" -> Unit(n, ((i - 1) % n) + 1)
          [] kind = "zerofirst" ->
                 IF i = 1 THEN ConstVec(n, 0) ELSE Unit(n, ((i - 1) % n) + 1)
          [] OTHER -> IF i % 2 = 1 THEN Prefix(n, <<3, 4>>) ELSE Prefix(n, <<1, 1>>)]

AKinds == {"first", "ones"}

\* the values factor A of shape (r, n) is filled with
AMat(kind, n, r) ==
    [k \in 1..r |-> IF kind = "first" THEN Unit(n, 1) ELSE ConstVec(n, 1)]

\* the values factor B of shape (o, r) is filled with
BVals == (0 - 1)..MaxB
BMat(c, o, r) == [i \in 1..o |-> ConstVec(r, c)]

\* the values a trained magnitude is filled with
MVals == {2}

\* forward inputs of shape (n,)
Inputs(n) == {ConstVec(n, c) : c \in 1..MaxX} \cup {[j \in 1..n |-> R(j - 2)]}

\* the sets of input positions a dropout draw keeps
Masks(n, p) == IF p[1] = 0 THEN {1..n} ELSE {1..n, 2..n}

(***************************************************************************)
(* The layer.                                                              *)
(***************************************************************************)
VARIABLES
    pc,          \* "new", "ready" (constructed) or "failed" (__init__ raised)
    cfg,         \* in_dim, out_dim, rank, alpha, dropout, use_dora, use_bias, quantize_base
    params,      \* names of the parameters registered on the module
    weight,      \* base weight, shape (out_dim, in_dim)
    bias,        \* base bias, shape (out_dim,), or <<>> for None
    lora_a,      \* lora_a.weight, shape (rank, in_dim)
    lora_b,      \* lora_b.weight, shape (out_dim, rank)
    lora_m,      \* [shape, data] of the magnitude; NoTensor without DoRA
    disabled,
    op,          \* the last call on the layer: "forward", "init_dora", or "none"
    x,           \* input of the last forward
    lo,          \* low-rank perturbation computed by the last forward
    y,           \* output of the last forward
    norm,        \* what _dora_weight_norm returned to the last call that used it
    fresh,       \* no parameter written since __init__ returned
    committed,   \* init_dora ran and no parameter was written since
    kept         \* input and output of the last enabled forward without dropout,
                 \* while no parameter was written since

vars == <<pc, cfg, params, weight, bias, lora_a, lora_b, lora_m, disabled,
          op, x, lo, y, norm, fresh, committed, kept>>

NoKept == [set |-> FALSE, x |-> <<>>, y |-> <<>>]

NoTensor == [shape |-> <<>>, data |-> <<>>]

NoCfg == [in_dim |-> 0, out_dim |-> 0, rank |-> 0, alpha |-> 0, dropout |-> <<0, 1>>,
          use_dora |-> FALSE, use_bias |-> FALSE, quantize_base |-> FALSE]

Init ==
    /\ pc = "new"
    /\ cfg = NoCfg
    /\ params = {}
    /\ weight = <<>>
    /\ bias = <<>>
    /\ lora_a = <<>>
    /\ lora_b = <<>>
    /\ lora_m = NoTensor
    /\ disabled = FALSE
    /\ op = "none"
    /\ x = <<>>
    /\ lo = <<>>
    /\ y = <<>>
    /\ norm = <<>>
    /\ fresh = FALSE
    /\ committed = FALSE
    /\ kept = NoKept

\* a _create_weight_and_bias that accepts a bias on a quantized base
CreateWeightAndBiasNoRaise(c, W0, b0) ==
    [raised |-> FALSE,
     weight |-> IF ~c.quantize_base THEN W0 ELSE to_nf4_matrix(W0, c.in_dim),
     bias |-> IF c.use_bias THEN b0 ELSE <<>>]

\* _create_weight_and_bias: [raised, weight, bias]
CreateWeightAndBias(c, W0, b0) ==
    LET w == IF ~c.quantize_base THEN W0 ELSE to_nf4_matrix(W0, c.in_dim)
    IN  IF c.use_bias
        THEN IF c.quantize_base
             THEN [raised |-> TRUE, weight |-> <<>>, bias |-> <<>>]
             ELSE [raised |-> FALSE, weight |-> w, bias |-> b0]
        ELSE [raised |-> FALSE, weight |-> w, bias |-> <<>>]

\* the names __init__ registers, in order, once weight and bias exist
RegisteredParams(c, b) ==
    {"weight"} \cup (IF b # <<>> THEN {"bias"} ELSE {})
        \cup {"lora_a.weight", "lora_b.weight"}
        \cup (IF c.use_dora THEN {"lora_m"} ELSE {})

_lora_a_init_params(A0) == A0

\* a factor B that starts at ones
LoraBInitOnes(o, r) == [i \in 1..o |-> ConstVec(r, 1)]

_lora_b_init_params(o, r) == [i \in 1..o |-> ConstVec(r, 0)]

_dora_m_init_params(m) == [m EXCEPT !.data = [j \in 1..Len(m.data) |-> SOfRat(R(1))]]

\* __init__; W0, b0 are nn.Linear's random fill, A0 the Kaiming-uniform draw
Construct(c, W0, b0, A0) ==
    /\ pc = "new"
    /\ \E wb \in {CreateWeightAndBias(c, W0, b0)} :
        /\ cfg' = c
        /\ IF wb.raised
           THEN /\ pc' = "failed"
                /\ UNCHANGED <<params, weight, bias, lora_a, lora_b, lora_m,
                               disabled, fresh>>
           ELSE /\ pc' = "ready"
                /\ disabled' = FALSE
                /\ weight' = wb.weight
                /\ bias' = wb.bias
                /\ params' = RegisteredParams(c, wb.bias)
                /\ lora_a' = _lora_a_init_params(A0)
                /\ lora_b' = _lora_b_init_params(c.out_dim, c.rank)
                /\ lora_m' = IF c.use_dora
                             THEN _dora_m_init_params(
                                      [shape |-> <<1, c.out_dim>>,
                                       data |-> [j \in 1..c.out_dim |-> SZero]])
                             ELSE NoTensor
                /\ fresh' = TRUE
        /\ UNCHANGED <<op, x, lo, y, norm, committed, kept>>

\* an adapter_params that names the magnitude whether or not DoRA is on
AdapterParamsAlwaysMagnitude == <<"lora_a.weight", "lora_b.weight", "lora_m">>

\* adapter_params
AdapterParams ==
    <<"lora_a.weight", "lora_b.weight">>
        \o (IF cfg.use_dora THEN <<"lora_m">> ELSE <<>>)

Scaling == RNorm(cfg.alpha, cfg.rank)

Eps == [q |-> <<1, 1>>, s |-> 1, e |-> 1]

\* a norm left unclamped
NoClamp(v) == v

\* torch.clamp(v, min=1e-6)
Clamp(v) ==
    CHOOSE r \in {[i \in 1..Len(a) |-> IF SLess(a[i], Eps) THEN Eps ELSE a[i]] :
                     a \in {v}} : TRUE

\* _dora_weight_norm, shape (out_dim,)
DoraWeightNorm ==
    LET result == MatAdd(weight,
                         MatScale(Scaling, MatMul(lora_b, lora_a, cfg.in_dim)))
        clamped == Clamp(RowNorm(result))
    IN  IF cfg.quantize_base THEN to_nf4(clamped) ELSE clamped

\* init_dora: lora_m.data = weight_norm.data
InitDoraResult(m, weight_norm) ==
    [shape |-> <<Len(weight_norm)>>, data |-> weight_norm]

InitDora ==
    /\ pc = "ready"
    /\ cfg.use_dora
    /\ \E weight_norm \in {DoraWeightNorm} :
          /\ norm' = weight_norm
          /\ lora_m' = InitDoraResult(lora_m, weight_norm)
    /\ op' = "init_dora"
    /\ x' = <<>>
    /\ lo' = <<>>
    /\ y' = <<>>
    /\ fresh' = FALSE
    /\ committed' = TRUE
    /\ kept' = NoKept
    /\ UNCHANGED <<pc, cfg, params, weight, bias, lora_a, lora_b, disabled>>

\* nn.Dropout(p) in training mode: kept entries are scaled by 1 / (1 - p)
Dropout(v, keep, p) ==
    [i \in 1..Len(v) |->
        IF i \in keep THEN RDiv(v[i], RAdd(R(1), RNeg(p))) ELSE R(0)]

\* F.linear(x, weight, bias), or linear_nf4(x, weight) on a quantized base
BaseOut(v) ==
    IF cfg.quantize_base THEN MatVec(weight, v) ELSE Linear(v, weight, bias)

\* a perturbation scaled by alpha / rank twice
LoraOutScaledTwice(v, keep) ==
    VecScale(Scaling,
             VecScale(Scaling,
                      MatVec(lora_b, MatVec(lora_a, Dropout(v, keep, cfg.dropout)))))

\* (alpha / rank) * lora_b(lora_a(dropout(x)))
LoraOut(v, keep) ==
    VecScale(Scaling, MatVec(lora_b, MatVec(lora_a, Dropout(v, keep, cfg.dropout))))

\* (lora_m / weight_norm).view(1, -1)
MagNormScale(m, weight_norm) ==
    CHOOSE r \in {[j \in 1..Len(w) |-> SDiv(m.data[j], w[j])] : w \in {weight_norm}} : TRUE

\* (out + lora_out) * mag_norm_scale
Rescale(sum, scale) ==
    CHOOSE r \in {[j \in 1..Len(a) |-> SMul(SOfRat(a[j]), b[j])] :
                     a \in {sum}, b \in {scale}} : TRUE

\* forward past the disabled return: the adapter path
AdapterRun(v, keep) ==
    CHOOSE r \in
        {IF cfg.use_dora
         THEN [y |-> Rescale(VecAdd(out, lora_out),
                             MagNormScale(lora_m, weight_norm)),
               lo |-> lora_out, norm |-> weight_norm]
         ELSE [y |-> SVec(VecAdd(out, lora_out)), lo |-> lora_out, norm |-> <<>>] :
            out \in {BaseOut(v)},
            lora_out \in {LoraOut(v, keep)},
            weight_norm \in {IF cfg.use_dora THEN DoraWeightNorm ELSE <<>>}} : TRUE

\* a forward without the disabled return
ForwardRunUngated(v, keep) == AdapterRun(v, keep)

\* forward: [y, lo, norm], the output with the perturbation and the norm it used
ForwardRun(v, keep) ==
    IF disabled THEN [y |-> SVec(BaseOut(v)), lo |-> <<>>, norm |-> <<>>]
    ELSE AdapterRun(v, keep)

\* a forward that stores the norm it recomputed in the magnitude
ForwardStoringNorm(v, keep) ==
    /\ pc = "ready"
    /\ \E r \in {ForwardRun(v, keep)} :
          /\ y' = r.y
          /\ lo' = r.lo
          /\ norm' = r.norm
          /\ lora_m' = IF cfg.use_dora /\ ~disabled
                       THEN [lora_m EXCEPT !.data = r.norm]
                       ELSE lora_m
          /\ kept' = IF ~disabled /\ cfg.dropout[1] = 0
                     THEN [set |-> TRUE, x |-> v, y |-> r.y]
                     ELSE kept
    /\ op' = "forward"
    /\ x' = v
    /\ UNCHANGED <<pc, cfg, params, weight, bias, lora_a, lora_b,
                   disabled, fresh, committed>>

Forward(v, keep) ==
    /\ pc = "ready"
    /\ \E r \in {ForwardRun(v, keep)} :
          /\ y' = r.y
          /\ lo' = r.lo
          /\ norm' = r.norm
          /\ kept' = IF ~disabled /\ cfg.dropout[1] = 0
                     THEN [set |-> TRUE, x |-> v, y |-> r.y]
                     ELSE kept
    /\ op' = "forward"
    /\ x' = v
    /\ UNCHANGED <<pc, cfg, params, weight, bias, lora_a, lora_b, lora_m,
                   disabled, fresh, committed>>

\* the caller sets self.disabled
SetDisabled(b) ==
    /\ pc = "ready"
    /\ b # disabled
    /\ disabled' = b
    /\ op' = "none"
    /\ x' = <<>>
    /\ lo' = <<>>
    /\ y' = <<>>
    /\ norm' = <<>>
    /\ UNCHANGED <<pc, cfg, params, weight, bias, lora_a, lora_b, lora_m,
                   fresh, committed, kept>>

Written ==
    /\ op' = "none"
    /\ x' = <<>>
    /\ lo' = <<>>
    /\ y' = <<>>
    /\ norm' = <<>>
    /\ fresh' = FALSE
    /\ committed' = FALSE
    /\ kept' = NoKept
    /\ UNCHANGED <<pc, cfg, params, disabled>>

\* the framework loads the real base weight into the registered parameter;
\* the base is frozen from then on
LoadBase(W0) ==
    /\ pc = "ready"
    /\ fresh
    /\ weight' = CreateWeightAndBias(cfg, W0, bias).weight
    /\ weight' # weight
    /\ Written
    /\ UNCHANGED <<bias, lora_a, lora_b, lora_m>>

\* the optimizer (or a checkpoint) writes the registered adapter parameters
SetLoraA(A0) ==
    /\ pc = "ready"
    /\ A0 # lora_a
    /\ lora_a' = A0
    /\ Written
    /\ UNCHANGED <<weight, bias, lora_b, lora_m>>

SetLoraB(B0) ==
    /\ pc = "ready"
    /\ B0 # lora_b
    /\ lora_b' = B0
    /\ Written
    /\ UNCHANGED <<weight, bias, lora_a, lora_m>>

SetLoraM(c) ==
    /\ pc = "ready"
    /\ cfg.use_dora
    /\ lora_m' = [lora_m EXCEPT !.data = [j \in 1..Len(lora_m.data) |-> SOfRat(R(c))]]
    /\ lora_m' # lora_m
    /\ Written
    /\ UNCHANGED <<weight, bias, lora_a, lora_b>>

\* (shape, alpha, dropout): every shape and alpha without dropout, and one
\* of them with it
Hypers ==
    {h \in Shapes \X Alphas \X DropoutPs :
        h[3][1] = 0 \/ (h[1] = <<2, 2, 2>> /\ h[2] = 1)}

Configs ==
    {[in_dim |-> h[1][1], out_dim |-> h[1][2], rank |-> h[1][3], alpha |-> h[2],
      dropout |-> h[3], use_dora |-> d, use_bias |-> ub, quantize_base |-> qb] :
        h \in Hypers, d \in BOOLEAN, ub \in BOOLEAN, qb \in BOOLEAN}

Next ==
    \/ \E c \in Configs, wk \in WKinds, ak \in AKinds :
          Construct(c, WMat(wk, c.in_dim, c.out_dim), ConstVec(c.out_dim, 1),
                    AMat(ak, c.in_dim, c.rank))
    \/ InitDora
    \/ \E v \in Inputs(cfg.in_dim), keep \in Masks(cfg.in_dim, cfg.dropout) :
          Forward(v, keep)
    \/ \E b \in BOOLEAN : SetDisabled(b)
    \/ \E wk \in WKinds : LoadBase(WMat(wk, cfg.in_dim, cfg.out_dim))
    \/ \E ak \in AKinds : SetLoraA(AMat(ak, cfg.in_dim, cfg.rank))
    \/ \E c \in BVals : SetLoraB(BMat(c, cfg.out_dim, cfg.rank))
    \/ \E c \in MVals : SetLoraM(c)

Spec == Init /\ [][Next]_vars

(***************************************************************************)
(* Reference definitions the properties are stated with.  They read the    *)
(* parameters only, and form the combined weight W + (alpha/rank) B A       *)
(* before applying it.                                                     *)
(***************************************************************************)
ZeroVec(v) == \A j \in 1..Len(v) : v[j] = <<0, 1>>

AlphaOverRank == RDiv(R(cfg.alpha), R(cfg.rank))

\* M v + bias
Affine(M, v) ==
    [i \in 1..cfg.out_dim |->
        RAdd(Dot(M[i], v), IF bias = <<>> THEN R(0) ELSE bias[i])]

CombinedWeight ==
    [i \in 1..cfg.out_dim |->
        [j \in 1..cfg.in_dim |->
            RAdd(weight[i][j],
                 RMul(AlphaOverRank, Dot(lora_b[i], Column(lora_a, j))))]]

\* Euclidean row norms of M, each at least 1e-6, in the base weight's encoding
NormOf(M) ==
    CHOOSE r \in {IF cfg.quantize_base THEN to_nf4(n) ELSE n :
                     n \in {[i \in 1..Len(M) |->
                               CHOOSE c \in {IF SLess(e, Eps) THEN Eps ELSE e :
                                                e \in {Sqrt(Dot(M[i], M[i]))}} : TRUE]}} :
        TRUE

VecSEq(u, v) == Len(u) = Len(v) /\ \A j \in 1..Len(u) : SEq(u[j], v[j])

Ones(n) == [j \in 1..n |-> SOfRat(R(1))]

\* C1 (as claimed): right after construction the perturbation is zero and
\* forward(x) equals the base output, whatever the construction options.
C1_Original ==
    (op = "forward" /\ fresh) =>
        /\ ZeroVec(lo)
        /\ VecSEq(y, SVec(Affine(weight, x)))

\* C1 (amended): right after construction the perturbation is zero; forward(x)
\* equals the base output when DoRA is off or the layer is disabled, and with
\* DoRA on it is the base output times (1 / norm) per output.
C1_Amended ==
    (op = "forward" /\ fresh) =>
        /\ ZeroVec(lo)
        /\ (~cfg.use_dora \/ disabled) => y = SVec(Affine(weight, x))
        /\ (cfg.use_dora /\ ~disabled) =>
              \A base \in {Affine(weight, x)}, n \in {NormOf(weight)} :
                  y = [j \in 1..cfg.out_dim |->
                          SMul(SOfRat(base[j]), SDiv(SOfRat(R(1)), n[j]))]

C1_Witness ==
    /\ op = "forward" /\ fresh /\ ~disabled
    /\ ~cfg.use_dora /\ cfg.quantize_base /\ cfg.dropout[1] # 0
    /\ \E j \in 1..Len(y) : SSign(y[j]) # 0

\* C2: a disabled layer returns the base affine transform of x, a function of
\* base weight, bias and x alone.
C2_DisabledIsBase ==
    (op = "forward" /\ disabled) => y = SVec(Affine(weight, x))

C2_Witness ==
    /\ op = "forward" /\ disabled /\ cfg.use_dora /\ cfg.dropout[1] # 0
    /\ ~ZeroVec(lora_b[1])
    /\ lora_m.data # Ones(cfg.out_dim)
    /\ \E j \in 1..Len(y) : SSign(y[j]) # 0

\* C3: construction fails exactly when quantize_base and use_bias are both set,
\* and then no parameter is registered; otherwise it succeeds.
C3_Construction ==
    (pc # "new") =>
        IF cfg.quantize_base /\ cfg.use_bias
        THEN pc = "failed" /\ params = {}
        ELSE pc = "ready" /\ {"weight", "lora_a.weight", "lora_b.weight"} \subseteq params

C3_Witness == pc = "failed" /\ cfg.quantize_base /\ cfg.use_bias /\ cfg.use_dora

\* C4 (as claimed): every entry of the norm _dora_weight_norm returns, to
\* init_dora and to forward, is at least 1e-6.
C4_NormFloor ==
    \A j \in 1..Len(norm) : Finite(norm[j]) /\ SLeq(Eps, norm[j])

\* C5 (as claimed): init_dora with B = 0 leaves the Euclidean row norm of the
\* base weight in the magnitude.
C5_Original ==
    (op = "init_dora" /\ \A i \in 1..cfg.out_dim : ZeroVec(lora_b[i])) =>
        lora_m.data = [i \in 1..cfg.out_dim |-> Sqrt(Dot(weight[i], weight[i]))]

\* C5 (amended): init_dora with B = 0 leaves in the magnitude the row norm of
\* the base weight clamped below at 1e-6 (NF4-encoded on a quantized base).
C5_Amended ==
    (op = "init_dora" /\ \A i \in 1..cfg.out_dim : ZeroVec(lora_b[i])) =>
        lora_m.data = NormOf(weight)

C5_Witness ==
    /\ op = "init_dora"
    /\ \A i \in 1..cfg.out_dim : ZeroVec(lora_b[i])
    /\ ZeroVec(weight[1])
    /\ lora_m.data[1] = Eps

\* C6 (as claimed): with DoRA on, dropout 0 and the layer enabled, forward
\* after init_dora (no parameter written since) is the output of the combined
\* weight: the scale magnitude / norm is 1.
C6_CommittedIsCombined ==
    (op = "forward" /\ cfg.use_dora /\ ~disabled /\ cfg.dropout[1] = 0 /\ committed) =>
        VecSEq(y, SVec(Affine(CombinedWeight, x)))

C8_ForwardReference ==
    (op = "forward" /\ ~disabled /\ cfg.dropout[1] = 0) =>
        \A cw \in {CombinedWeight} :
            \A und \in {Affine(cw, x)} :
                IF cfg.use_dora
                THEN \A n \in {NormOf(cw)} :
                        y = [j \in 1..cfg.out_dim |->
                                SMul(SOfRat(und[j]), SDiv(lora_m.data[j], n[j]))]
                ELSE y = SVec(und)

\* the example: in_dim 4, out_dim 2, rank 1, alpha 1, B = [[1],[1]], x = ones
C8_Witness ==
    /\ op = "forward" /\ ~disabled /\ ~cfg.use_dora /\ ~cfg.use_bias
    /\ ~cfg.quantize_base /\ cfg.dropout[1] = 0
    /\ cfg.in_dim = 4 /\ cfg.out_dim = 2 /\ cfg.rank = 1 /\ cfg.alpha = 1
    /\ weight = <<IntVec(<<1, 0, 0, 0>>), IntVec(<<0, 1, 0, 0>>)>>
    /\ lora_a = <<IntVec(<<1, 0, 0, 0>>)>>
    /\ lora_b = <<IntVec(<<1>>), IntVec(<<1>>)>>
    /\ x = IntVec(<<1, 1, 1, 1>>)
    /\ y = SVec(IntVec(<<2, 2>>))

\* C9: forward writes no parameter and not the flag; init_dora writes only the
\* magnitude; a toggle writes only the flag; so an enabled forward on the same
\* input returns what it returned before the layer was disabled and re-enabled.
C9_Frame ==
    [][/\ (op' = "forward") =>
             UNCHANGED <<weight, bias, lora_a, lora_b, lora_m, disabled>>
       /\ (op' = "init_dora") =>
             UNCHANGED <<weight, bias, lora_a, lora_b, disabled>>
       /\ (disabled' # disabled) =>
             UNCHANGED <<weight, bias, lora_a, lora_b, lora_m>>
       /\ (op' = "forward" /\ ~disabled /\ kept.set /\ kept.x = x') =>
             y' = kept.y]_vars

C9_Witness ==
    /\ op = "forward" /\ ~disabled /\ kept.set /\ kept.x = x
    /\ cfg.use_dora /\ committed
    /\ ~ZeroVec(lora_b[1])

\* C10 (as claimed): the magnitude of a DoRA layer always has shape (1, out_dim).
C10_MagnitudeShape ==
    (pc = "ready" /\ cfg.use_dora) => lora_m.shape = <<1, cfg.out_dim>>

====
